---- MODULE Spec2Model ----
(***************************************************************************)
(* A model of the Hatvoni record stores (hatvoni/project_tracker.py,       *)
(* hatvoni/task_manager.py, hatvoni/team_manager.py).                      *)
(*                                                                         *)
(* A store is a Python dict (identifier -> record, insertion ordered) and  *)
(* a backing JSON file.  The dict is modelled as a sequence of entries     *)
(* [key, val]; the file as the JSON value it holds.  A record in the file  *)
(* is a JSON object, modelled as a function from field names to values, so *)
(* that a field can be absent.  The three stores share no state, so a      *)
(* behaviour follows the store of one command (hatvoni_cli.main dispatches *)
(* every invocation to exactly one of them).                               *)
(*                                                                         *)
(* Time: `now` counts clock ticks.  A "%Y-%m-%d %H:%M:%S" string is        *)
(* modelled by the number of whole seconds it denotes, a "%Y-%m-%d" string *)
(* by the number of whole days.                                            *)
(***************************************************************************)
EXTENDS Integers, Sequences, FiniteSets, TLC

VARIABLES
    command,     \* which manager this process works with
    data_file,   \* path of the backing file: [dir, name]
    dirs,        \* directories that exist on disk
    file,        \* content of the backing file
    projects,    \* ProjectTracker.projects
    tasks,       \* TaskManager.tasks
    members,     \* TeamManager.members
    now,         \* the wall clock, in ticks
    last,        \* the last call: [op, id, ret]
    arg,         \* the value argument of the last call
    result,      \* the list returned by the last query
    pre,         \* store, file and clock before the last call
    procs,       \* concurrent invocations: [pc, projects, ret, id]
    writers,     \* the invocations in the order their rewrites completed
    overlap      \* two rewrites were in progress at the same time

vars == <<command, data_file, dirs, file, projects, tasks, members, now,
          last, arg, result, pre, procs, writers, overlap>>

\* the state of the concurrent invocations
conc == <<procs, writers, overlap>>

----------------------------------------------------------------------------
(* Bounds *)

MaxTick == 2
TicksPerSecond == 2
SecondsPerDay == 2
MaxMilestones == 1

(* Value domains *)

ProjectIds == {"p1", "p2"}
TaskIds == {"t1", "t2"}
MemberIds == {"m1", "m2"}
ProjectStatuses == {"planning", "active"}
TaskStatuses == {"todo", "done"}
Roles == {"developer", "designer"}
Skills == {"go", "rust"}
MilestoneTexts == {"design"}

None == "None"

----------------------------------------------------------------------------
(* Clock formatting *)

DATETIME_FORMAT(t) == t \div TicksPerSecond

DATE_FORMAT(t) == (t \div TicksPerSecond) \div SecondsPerDay

----------------------------------------------------------------------------
(* Python dict and JSON object helpers *)

\* d.get(k, default) on a JSON object
Get(d, k, default) == IF k \in DOMAIN d THEN d[k] ELSE default

\* a JSON object without the fields in S
Without(d, S) == [k \in (DOMAIN d) \ S |-> d[k]]

Keys(mem) == {mem[i].key : i \in 1..Len(mem)}

IndexOf(mem, k) == CHOOSE i \in 1..Len(mem) : mem[i].key = k

\* An Optional value: Nothing is Python's None, Some(x) a value that is there
Nothing == <<>>
Some(x) == <<x>>

\* mem.get(k): the record, or None
Lookup(mem, k) ==
    IF k \in Keys(mem) THEN Some(mem[IndexOf(mem, k)].val) ELSE Nothing

\* a dict that moves an assigned key to the end (del mem[k]; mem[k] = v)
DictSetMovesToEnd(mem, k, v) ==
    Append(SelectSeq(mem, LAMBDA e : e.key # k), [key |-> k, val |-> v])

\* mem[k] = v: a present key keeps its position, a new key goes last
DictSet(mem, k, v) ==
    IF k \in Keys(mem)
    THEN [mem EXCEPT ![IndexOf(mem, k)] = [key |-> k, val |-> v]]
    ELSE Append(mem, [key |-> k, val |-> v])

\* list(mem.values())
RECURSIVE Values(_)
Values(mem) ==
    IF mem = <<>> THEN <<>> ELSE <<Head(mem).val>> \o Values(Tail(mem))

Contains(s, x) == \E i \in 1..Len(s) : s[i] = x

----------------------------------------------------------------------------
(* The backing file *)

AbsentFile == [kind |-> "absent"]
NotJson == [kind |-> "notjson"]
NotObject == [kind |-> "notobject"]
JsonObject(body) == [kind |-> "object", body |-> body]
EmptyObject == [k \in {} |-> <<>>]

\* os.path.dirname(data_file)
dirname(path) == path.dir

DEFAULT_PROJECTS_FILE == [dir |-> "data", name |-> "projects.json"]
DEFAULT_TASKS_FILE == [dir |-> "data", name |-> "tasks.json"]
DEFAULT_TEAM_FILE == [dir |-> "data", name |-> "team.json"]

\* the state a call starts from
Snapshot == [projects |-> projects, tasks |-> tasks, members |-> members,
             file |-> file, dirs |-> dirs, now |-> now]

\* the record of a call; `again` says that the call before it was the same
\* call with the same arguments
Call(op, id, value, ret) ==
    /\ last' = [op |-> op, id |-> id, ret |-> ret,
                again |-> last.op = op /\ last.id = id /\ arg = value]
    /\ arg' = value

\* os.makedirs(os.path.dirname(data_file), exist_ok=True) and
\* open(data_file, 'w'); json.dump(data, f): makedirs("") raises
\* FileNotFoundError, and then nothing is written
WriteFile(op, id, value, body) ==
    IF dirname(data_file) = ""
    THEN /\ dirs' = dirs
         /\ file' = file
         /\ Call(op, id, value, "raised")
    ELSE /\ dirs' = dirs \cup {dirname(data_file)}
         /\ file' = JsonObject(body)
         /\ Call(op, id, value, "True")

\* a failing call that has opened the file for writing before it looked
\* the identifier up, which truncates it
ReturnAfterOpen(op, id, value, ret) ==
    /\ Call(op, id, value, ret)
    /\ file' = JsonObject(EmptyObject)
    /\ UNCHANGED <<dirs, projects, tasks, members>>

\* a call that returns without touching the store or the disk
ReturnOnly(op, id, value, ret) ==
    /\ Call(op, id, value, ret)
    /\ UNCHANGED <<dirs, file, projects, tasks, members>>

----------------------------------------------------------------------------
(* project_tracker.py *)

\* Project.__init__ at time t; start_date is Optional
Project(project_id, name, description, status, start_date, t) ==
    [project_id |-> project_id,
     name |-> name,
     description |-> description,
     status |-> status,
     start_date |-> IF start_date = Nothing THEN DATE_FORMAT(t)
                    ELSE start_date[1],
     milestones |-> <<>>,
     created_at |-> DATETIME_FORMAT(t)]

Project_to_dict(p) ==
    [project_id |-> p.project_id,
     name |-> p.name,
     description |-> p.description,
     status |-> p.status,
     start_date |-> p.start_date,
     milestones |-> p.milestones,
     created_at |-> p.created_at]

ProjectRequired == {"project_id", "name", "description"}

\* Project.from_dict at time t; raises KeyError unless ProjectRequired are there
Project_from_dict(data, t) ==
    [Project(data["project_id"], data["name"], data["description"],
             Get(data, "status", "planning"),
             IF "start_date" \in DOMAIN data THEN Some(data["start_date"])
             ELSE Nothing,
             t)
     EXCEPT !.milestones = Get(data, "milestones", <<>>),
            !.created_at = Get(data, "created_at", DATETIME_FORMAT(t))]

\* the for loop of _load_projects: the first record that raises ends the
\* loop, and what was inserted before it stays in self.projects
RECURSIVE load_project_list(_, _, _)
load_project_list(list, mem, t) ==
    IF list = <<>> THEN mem
    ELSE IF ~(ProjectRequired \subseteq DOMAIN Head(list)) THEN mem
    ELSE LET project == Project_from_dict(Head(list), t)
         IN  load_project_list(Tail(list),
                               DictSet(mem, project.project_id, project), t)

\* ProjectTracker.__init__ and _load_projects: the dict after construction
load_projects(f, t) ==
    IF f.kind # "object" THEN <<>>
    ELSE load_project_list(Get(f.body, "projects", <<>>), <<>>, t)

RECURSIVE project_dicts(_)
project_dicts(mem) ==
    IF mem = <<>> THEN <<>>
    ELSE <<Project_to_dict(Head(mem).val)>> \o project_dicts(Tail(mem))

\* a save that serializes the dict as it was before the mutation
save_projects_stale(op, id, value) ==
    WriteFile(op, id, value, [projects |-> project_dicts(projects)])

\* _save_projects
save_projects(op, id, value) ==
    WriteFile(op, id, value, [projects |-> project_dicts(projects')])

\* the caller passes no start date, or an earlier day
InputStartDates == {Nothing, Some(7)}

\* a duplicate check that never finds the identifier
in_projects_never(project) == FALSE

\* `project.project_id in self.projects`
in_projects(project) == project.project_id \in Keys(projects)

InputProject(id, status, start_date) ==
    Project(id, "X", "Y", status, start_date, now)

add_project ==
    /\ command = "project"
    /\ \E id \in ProjectIds, status \in ProjectStatuses,
          start_date \in InputStartDates :
          LET project == InputProject(id, status, start_date)
          IN  /\ IF in_projects(project)
                 THEN ReturnOnly("add_project", id, project, "False")
                 ELSE /\ projects' =
                           DictSet(projects, project.project_id, project)
                      /\ save_projects("add_project", id, project)
                      /\ UNCHANGED <<tasks, members>>
    /\ pre' = Snapshot
    /\ result' = <<>>
    /\ UNCHANGED <<conc, command, data_file, now>>

get_project(project_id) == Lookup(projects, project_id)

update_project_status ==
    /\ command = "project"
    /\ \E project_id \in ProjectIds, status \in ProjectStatuses :
          LET project == get_project(project_id)
          IN  /\ IF project # Nothing
                 THEN /\ projects' =
                           DictSet(projects, project_id,
                                   [project[1] EXCEPT !.status = status])
                      /\ save_projects("update_project_status", project_id,
                                       status)
                      /\ UNCHANGED <<tasks, members>>
                 ELSE ReturnOnly("update_project_status", project_id, status,
                                 "False")
    /\ pre' = Snapshot
    /\ result' = <<>>
    /\ UNCHANGED <<conc, command, data_file, now>>

add_milestone ==
    /\ command = "project"
    /\ \E project_id \in ProjectIds, milestone \in MilestoneTexts :
          LET project == get_project(project_id)
          IN  /\ project # Nothing => Len(project[1].milestones) < MaxMilestones
              /\ IF project # Nothing
                 THEN /\ projects' =
                           DictSet(projects, project_id,
                                   [project[1] EXCEPT !.milestones =
                                       Append(@, [description |-> milestone,
                                                  added_at |->
                                                      DATETIME_FORMAT(now)])])
                      /\ save_projects("add_milestone", project_id, milestone)
                      /\ UNCHANGED <<tasks, members>>
                 ELSE ReturnOnly("add_milestone", project_id, milestone,
                                 "False")
    /\ pre' = Snapshot
    /\ result' = <<>>
    /\ UNCHANGED <<conc, command, data_file, now>>

\* a query: returns a list and changes nothing
Query(op, value, list) ==
    /\ Call(op, None, value, "list")
    /\ result' = list
    /\ pre' = Snapshot
    /\ UNCHANGED <<conc, command, data_file, dirs, file, projects, tasks,
                   members,
                   now>>

list_projects ==
    /\ command = "project"
    /\ Query("list_projects", None, Values(projects))

\* [p for p in self.projects.values() if p.status == status]
projects_by_status(status) ==
    SelectSeq(Values(projects), LAMBDA p : p.status = status)

get_projects_by_status ==
    /\ command = "project"
    /\ \E status \in ProjectStatuses :
          Query("get_projects_by_status", status, projects_by_status(status))

----------------------------------------------------------------------------
(* task_manager.py *)

\* Task.__init__ at time t; assigned_to is a member id or None
Task(task_id, title, description, project_id, assigned_to, priority, status, t) ==
    [task_id |-> task_id,
     title |-> title,
     description |-> description,
     project_id |-> project_id,
     assigned_to |-> assigned_to,
     priority |-> priority,
     status |-> status,
     created_at |-> DATETIME_FORMAT(t),
     updated_at |-> DATETIME_FORMAT(t)]

\* a serialization that leaves the assignee out
Task_to_dict_without_assignee(task) ==
    [task_id |-> task.task_id,
     title |-> task.title,
     description |-> task.description,
     project_id |-> task.project_id,
     priority |-> task.priority,
     status |-> task.status,
     created_at |-> task.created_at,
     updated_at |-> task.updated_at]

Task_to_dict(task) ==
    [task_id |-> task.task_id,
     title |-> task.title,
     description |-> task.description,
     project_id |-> task.project_id,
     assigned_to |-> task.assigned_to,
     priority |-> task.priority,
     status |-> task.status,
     created_at |-> task.created_at,
     updated_at |-> task.updated_at]

TaskRequired == {"task_id", "title", "description", "project_id"}

\* Task.from_dict at time t; raises KeyError unless TaskRequired are there
Task_from_dict(data, t) ==
    LET task == Task(data["task_id"], data["title"], data["description"],
                     data["project_id"],
                     Get(data, "assigned_to", None),
                     Get(data, "priority", "medium"),
                     Get(data, "status", "todo"),
                     t)
    IN  [task EXCEPT !.created_at = Get(data, "created_at", task.created_at),
                     !.updated_at = Get(data, "updated_at", task.updated_at)]

\* the for loop of _load_tasks
RECURSIVE load_task_list(_, _, _)
load_task_list(list, mem, t) ==
    IF list = <<>> THEN mem
    ELSE IF ~(TaskRequired \subseteq DOMAIN Head(list)) THEN mem
    ELSE LET task == Task_from_dict(Head(list), t)
         IN  load_task_list(Tail(list), DictSet(mem, task.task_id, task), t)

\* TaskManager.__init__ and _load_tasks: the dict after construction
load_tasks(f, t) ==
    IF f.kind # "object" THEN <<>>
    ELSE load_task_list(Get(f.body, "tasks", <<>>), <<>>, t)

RECURSIVE task_dicts(_)
task_dicts(mem) ==
    IF mem = <<>> THEN <<>>
    ELSE <<Task_to_dict(Head(mem).val)>> \o task_dicts(Tail(mem))

\* _save_tasks
save_tasks(op, id, value) ==
    WriteFile(op, id, value, [tasks |-> task_dicts(tasks')])

\* `task.task_id in self.tasks`
in_tasks(task) == task.task_id \in Keys(tasks)

\* <<project_id, assigned_to, priority, status>> of the tasks a caller adds
InputTasks ==
    { <<"p1", None, "medium", "todo">>,
      <<"p2", "m1", "high", "done">>,
      <<"p1", "m1", "high", "todo">> }

InputTask(id, in) == Task(id, "T", "D", in[1], in[2], in[3], in[4], now)

add_task ==
    /\ command = "task"
    /\ \E id \in TaskIds, in \in InputTasks :
          LET task == InputTask(id, in)
          IN  /\ IF in_tasks(task)
                 THEN ReturnOnly("add_task", id, task, "False")
                 ELSE /\ tasks' = DictSet(tasks, task.task_id, task)
                      /\ save_tasks("add_task", id, task)
                      /\ UNCHANGED <<projects, members>>
    /\ pre' = Snapshot
    /\ result' = <<>>
    /\ UNCHANGED <<conc, command, data_file, now>>

get_task(task_id) == Lookup(tasks, task_id)

\* `task.status = status; task.updated_at = datetime.now().strftime(...)`
set_task_status(task, status, t) ==
    [task EXCEPT !.status = status, !.updated_at = DATETIME_FORMAT(t)]

\* an assignment that does not refresh updated_at
set_assigned_to_only(task, member_id, t) ==
    [task EXCEPT !.assigned_to = member_id]

\* `task.assigned_to = member_id; task.updated_at = datetime.now()...`
set_assigned_to(task, member_id, t) ==
    [task EXCEPT !.assigned_to = member_id, !.updated_at = DATETIME_FORMAT(t)]

update_task_status ==
    /\ command = "task"
    /\ \E task_id \in TaskIds, status \in TaskStatuses :
          LET task == get_task(task_id)
          IN  /\ IF task # Nothing
                 THEN /\ tasks' =
                           DictSet(tasks, task_id,
                                   set_task_status(task[1], status, now))
                      /\ save_tasks("update_task_status", task_id, status)
                      /\ UNCHANGED <<projects, members>>
                 ELSE ReturnOnly("update_task_status", task_id, status, "False")
    /\ pre' = Snapshot
    /\ result' = <<>>
    /\ UNCHANGED <<conc, command, data_file, now>>

assign_task ==
    /\ command = "task"
    /\ \E task_id \in TaskIds, member_id \in MemberIds :
          LET task == get_task(task_id)
          IN  /\ IF task # Nothing
                 THEN /\ tasks' =
                           DictSet(tasks, task_id,
                                   set_assigned_to(task[1], member_id, now))
                      /\ save_tasks("assign_task", task_id, member_id)
                      /\ UNCHANGED <<projects, members>>
                 ELSE ReturnOnly("assign_task", task_id, member_id, "False")
    /\ pre' = Snapshot
    /\ result' = <<>>
    /\ UNCHANGED <<conc, command, data_file, now>>

list_tasks ==
    /\ command = "task"
    /\ Query("list_tasks", None, Values(tasks))

\* [t for t in self.tasks.values() if t.project_id == project_id]
tasks_by_project(project_id) ==
    SelectSeq(Values(tasks), LAMBDA t : t.project_id = project_id)

\* [t for t in self.tasks.values() if t.assigned_to == member_id]
tasks_by_assignee(member_id) ==
    SelectSeq(Values(tasks), LAMBDA t : t.assigned_to = member_id)

\* [t for t in self.tasks.values() if t.status == status]
tasks_by_status(status) ==
    SelectSeq(Values(tasks), LAMBDA t : t.status = status)

get_tasks_by_project ==
    /\ command = "task"
    /\ \E project_id \in ProjectIds :
          Query("get_tasks_by_project", project_id,
                tasks_by_project(project_id))

get_tasks_by_assignee ==
    /\ command = "task"
    /\ \E member_id \in MemberIds :
          Query("get_tasks_by_assignee", member_id,
                tasks_by_assignee(member_id))

get_tasks_by_status ==
    /\ command = "task"
    /\ \E status \in TaskStatuses :
          Query("get_tasks_by_status", status, tasks_by_status(status))

----------------------------------------------------------------------------
(* team_manager.py *)

\* TeamMember.__init__ at time t; skills is a list (`skills or []`)
TeamMember(member_id, name, email, role, skills, t) ==
    [member_id |-> member_id,
     name |-> name,
     email |-> email,
     role |-> role,
     skills |-> IF skills = <<>> THEN <<>> ELSE skills,
     joined_at |-> DATE_FORMAT(t)]

TeamMember_to_dict(member) ==
    [member_id |-> member.member_id,
     name |-> member.name,
     email |-> member.email,
     role |-> member.role,
     skills |-> member.skills,
     joined_at |-> member.joined_at]

MemberRequired == {"member_id", "name", "email"}

\* TeamMember.from_dict at time t; raises KeyError unless MemberRequired are
\* there
TeamMember_from_dict(data, t) ==
    LET member == TeamMember(data["member_id"], data["name"], data["email"],
                             Get(data, "role", "developer"),
                             Get(data, "skills", <<>>),
                             t)
    IN  [member EXCEPT !.joined_at = Get(data, "joined_at", member.joined_at)]

\* the for loop of _load_members
RECURSIVE load_member_list(_, _, _)
load_member_list(list, mem, t) ==
    IF list = <<>> THEN mem
    ELSE IF ~(MemberRequired \subseteq DOMAIN Head(list)) THEN mem
    ELSE LET member == TeamMember_from_dict(Head(list), t)
         IN  load_member_list(Tail(list),
                              DictSet(mem, member.member_id, member), t)

\* TeamManager.__init__ and _load_members: the dict after construction
load_members(f, t) ==
    IF f.kind # "object" THEN <<>>
    ELSE load_member_list(Get(f.body, "members", <<>>), <<>>, t)

RECURSIVE member_dicts(_)
member_dicts(mem) ==
    IF mem = <<>> THEN <<>>
    ELSE <<TeamMember_to_dict(Head(mem).val)>> \o member_dicts(Tail(mem))

\* _save_members
save_members(op, id, value) ==
    WriteFile(op, id, value, [members |-> member_dicts(members')])

\* `member.member_id in self.members`
in_members(member) == member.member_id \in Keys(members)

InputSkills == {<<>>, <<"go">>}

InputMember(id, role, skills) ==
    TeamMember(id, "N", "E", role, skills, now)

add_member ==
    /\ command = "team"
    /\ \E id \in MemberIds, role \in Roles, skills \in InputSkills :
          LET member == InputMember(id, role, skills)
          IN  /\ IF in_members(member)
                 THEN ReturnOnly("add_member", id, member, "False")
                 ELSE /\ members' = DictSet(members, member.member_id, member)
                      /\ save_members("add_member", id, member)
                      /\ UNCHANGED <<projects, tasks>>
    /\ pre' = Snapshot
    /\ result' = <<>>
    /\ UNCHANGED <<conc, command, data_file, now>>

get_member(member_id) == Lookup(members, member_id)

update_member_role ==
    /\ command = "team"
    /\ \E member_id \in MemberIds, role \in Roles :
          LET member == get_member(member_id)
          IN  /\ IF member # Nothing
                 THEN /\ members' =
                           DictSet(members, member_id,
                                   [member[1] EXCEPT !.role = role])
                      /\ save_members("update_member_role", member_id, role)
                      /\ UNCHANGED <<projects, tasks>>
                 ELSE ReturnOnly("update_member_role", member_id, role, "False")
    /\ pre' = Snapshot
    /\ result' = <<>>
    /\ UNCHANGED <<conc, command, data_file, now>>

\* a guard that does not look at the skills the member has
add_skill_guard_member_only(member, skill) == member # Nothing

\* `if member and skill not in member.skills`
add_skill_guard(member, skill) ==
    member # Nothing /\ ~Contains(member[1].skills, skill)

\* `member.skills.append(skill)`
append_skill(member, skill) == [member EXCEPT !.skills = Append(@, skill)]

add_skill ==
    /\ command = "team"
    /\ \E member_id \in MemberIds, skill \in Skills :
          LET member == get_member(member_id)
          IN  /\ IF add_skill_guard(member, skill)
                 THEN /\ members' =
                           DictSet(members, member_id,
                                   append_skill(member[1], skill))
                      /\ save_members("add_skill", member_id, skill)
                      /\ UNCHANGED <<projects, tasks>>
                 ELSE ReturnOnly("add_skill", member_id, skill, "False")
    /\ pre' = Snapshot
    /\ result' = <<>>
    /\ UNCHANGED <<conc, command, data_file, now>>

list_members ==
    /\ command = "team"
    /\ Query("list_members", None, Values(members))

\* [m for m in self.members.values() if m.role == role]
members_by_role(role) ==
    SelectSeq(Values(members), LAMBDA m : m.role = role)

\* a filter that compares the member's first skill only
members_by_first_skill(skill) ==
    SelectSeq(Values(members),
              LAMBDA m : m.skills # <<>> /\ m.skills[1] = skill)

\* [m for m in self.members.values() if skill in m.skills]
members_by_skill(skill) ==
    SelectSeq(Values(members), LAMBDA m : Contains(m.skills, skill))

get_members_by_role ==
    /\ command = "team"
    /\ \E role \in Roles :
          Query("get_members_by_role", role, members_by_role(role))

get_members_by_skill ==
    /\ command = "team"
    /\ \E skill \in Skills :
          Query("get_members_by_skill", skill, members_by_skill(skill))

----------------------------------------------------------------------------
(* Backing files a store can be constructed over *)

FullProject(id, status) ==
    Project_to_dict(Project(id, "X", "Y", status, Nothing, 0))

ProjectWithMilestone(id) ==
    [FullProject(id, "active") EXCEPT
        !.milestones = <<[description |-> "design", added_at |-> 0]>>]

\* a record with the required fields only
BareProject(id) ==
    Without(FullProject(id, "active"),
            DOMAIN FullProject(id, "active") \ ProjectRequired)

\* a record without its identifier
BadProject == Without(FullProject("p1", "active"), {"project_id"})

ProjectLists ==
    { <<>>,
      <<FullProject("p1", "active")>>,
      <<ProjectWithMilestone("p2")>>,
      <<BareProject("p1")>>,
      <<BadProject>>,
      <<FullProject("p1", "active"), BadProject>>,
      <<FullProject("p2", "planning"), FullProject("p1", "active")>>,
      <<FullProject("p1", "planning"), FullProject("p1", "active")>> }

FullTask(id, assigned_to, status) ==
    Task_to_dict(Task(id, "T", "D", "p1", assigned_to, "high", status, 0))

BareTask(id) ==
    Without(FullTask(id, "m1", "done"),
            DOMAIN FullTask(id, "m1", "done") \ TaskRequired)

BadTask == Without(FullTask("t1", None, "todo"), {"task_id"})

TaskLists ==
    { <<>>,
      <<FullTask("t1", "m1", "done")>>,
      <<FullTask("t2", None, "todo")>>,
      <<BareTask("t1")>>,
      <<BadTask>>,
      <<FullTask("t1", None, "todo"), BadTask>>,
      <<FullTask("t2", "m2", "todo"), FullTask("t1", None, "done")>>,
      <<FullTask("t1", None, "todo"), FullTask("t1", "m1", "done")>> }

FullMember(id, role, skills) ==
    TeamMember_to_dict(TeamMember(id, "N", "E", role, skills, 0))

BareMember(id) ==
    Without(FullMember(id, "designer", <<"go">>),
            DOMAIN FullMember(id, "designer", <<"go">>) \ MemberRequired)

BadMember == Without(FullMember("m1", "designer", <<>>), {"member_id"})

MemberLists ==
    { <<>>,
      <<FullMember("m1", "designer", <<"go">>)>>,
      <<FullMember("m2", "developer", <<>>)>>,
      <<BareMember("m1")>>,
      <<BadMember>>,
      <<FullMember("m1", "designer", <<"rust", "go">>), BadMember>>,
      <<FullMember("m2", "developer", <<"go">>),
        FullMember("m1", "designer", <<>>)>>,
      <<FullMember("m1", "developer", <<>>),
        FullMember("m1", "designer", <<"go">>)>> }

\* the top-level field of each store's file
ArrayField(cmd) ==
    CASE cmd = "project" -> "projects"
      [] cmd = "task" -> "tasks"
      [] cmd = "team" -> "members"

RecordLists(cmd) ==
    CASE cmd = "project" -> ProjectLists
      [] cmd = "task" -> TaskLists
      [] cmd = "team" -> MemberLists

Files(cmd) ==
    {AbsentFile, NotJson, NotObject, JsonObject(EmptyObject)}
    \cup {JsonObject([k \in {ArrayField(cmd)} |-> list]) :
              list \in RecordLists(cmd)}

DefaultFile(cmd) ==
    CASE cmd = "project" -> DEFAULT_PROJECTS_FILE
      [] cmd = "task" -> DEFAULT_TASKS_FILE
      [] cmd = "team" -> DEFAULT_TEAM_FILE

----------------------------------------------------------------------------
(* The process *)

\* the manager's constructor: an empty dict, then the load
Constructed(cmd, f, t) ==
    [projects |-> IF cmd = "project" THEN load_projects(f, t) ELSE <<>>,
     tasks |-> IF cmd = "task" THEN load_tasks(f, t) ELSE <<>>,
     members |-> IF cmd = "team" THEN load_members(f, t) ELSE <<>>]

Init ==
    /\ command \in {"project", "task", "team"}
    /\ data_file = DefaultFile(command)
    /\ file \in Files(command)
    /\ dirs = IF file = AbsentFile THEN {} ELSE {dirname(data_file)}
    /\ now = 0
    /\ projects = Constructed(command, file, now).projects
    /\ tasks = Constructed(command, file, now).tasks
    /\ members = Constructed(command, file, now).members
    /\ last = [op |-> "init", id |-> None, ret |-> "None", again |-> FALSE]
    /\ arg = None
    /\ result = <<>>
    /\ pre = [projects |-> <<>>, tasks |-> <<>>, members |-> <<>>,
              file |-> file, dirs |-> dirs, now |-> now]
    /\ procs = <<>>
    /\ writers = <<>>
    /\ overlap = FALSE

\* the process ends and the next invocation constructs its manager anew
Construct ==
    /\ last.op # "init"
    /\ projects' = Constructed(command, file, now).projects
    /\ tasks' = Constructed(command, file, now).tasks
    /\ members' = Constructed(command, file, now).members
    /\ last' = [op |-> "init", id |-> None, ret |-> "None", again |-> FALSE]
    /\ arg' = None
    /\ result' = <<>>
    /\ pre' = Snapshot
    /\ UNCHANGED <<conc, command, data_file, dirs, file, now>>

\* time passes
Tick ==
    /\ now < MaxTick
    /\ now' = now + 1
    /\ UNCHANGED <<conc, command, data_file, dirs, file, projects, tasks,
                   members,
                   last, arg, result, pre>>

Next ==
    \/ Construct
    \/ Tick
    \/ add_project
    \/ update_project_status
    \/ add_milestone
    \/ list_projects
    \/ get_projects_by_status
    \/ add_task
    \/ update_task_status
    \/ assign_task
    \/ list_tasks
    \/ get_tasks_by_project
    \/ get_tasks_by_assignee
    \/ get_tasks_by_status
    \/ add_member
    \/ update_member_role
    \/ add_skill
    \/ list_members
    \/ get_members_by_role
    \/ get_members_by_skill

Spec == Init /\ [][Next]_vars

----------------------------------------------------------------------------
(* Two invocations of `hatvoni_cli.py project ...` over one backing file.   *)
(* Each constructs its own ProjectTracker (the load), changes its own dict  *)
(* and rewrites the file.  The rewrite is two steps on the disk:            *)
(* open(data_file, 'w') truncates the file, and leaving the `with` block    *)
(* writes the buffered json.dump output at offset 0 of that descriptor.     *)

Procs == {1, 2}

\* a file that exists and has no bytes: json.load raises on it
TruncatedFile == [kind |-> "empty"]

\* open(self.data_file, 'r+'): a descriptor on the file as it is
open_keeps(f) == f

\* open(self.data_file, 'w') on a file f
open_w(f) == TruncatedFile

\* can the bytes of old reach beyond the bytes of new: not when old is
\* empty; when old is not a store's file its length is not known; of two
\* store files the one with more records is the longer
MayBeLonger(old, new) ==
    CASE old.kind \in {"empty", "absent"} -> FALSE
      [] old.kind \in {"notjson", "notobject"} -> TRUE
      [] old.kind = "object" ->
            Len(Get(old.body, "projects", <<>>))
                > Len(Get(new.body, "projects", <<>>))

\* what the file can hold after new was written at offset 0 over old: new,
\* or new followed by the rest of a longer old, which is not JSON
dumped(old, new) ==
    {new} \cup (IF MayBeLonger(old, new) THEN {NotJson} ELSE {})

\* what a concurrent invocation leaves alone: the single store of Spec
single == <<command, data_file, now, projects, tasks, members, last, arg,
            result, pre>>

Idle == [pc |-> "start", projects |-> <<>>, ret |-> "None", id |-> None]

\* handle_project_command: tracker = ProjectTracker()
tracker_load ==
    \E p \in Procs :
        /\ procs[p].pc = "start"
        /\ procs' = [procs EXCEPT ![p].pc = "loaded",
                                  ![p].projects = load_projects(file, now)]
        /\ UNCHANGED <<single, file, dirs, writers, overlap>>

\* _save_projects up to and including open(self.data_file, 'w')
open_for_save(p, mem, id) ==
    /\ procs' = [procs EXCEPT ![p].pc = "opened", ![p].projects = mem,
                              ![p].id = id]
    /\ dirs' = dirs \cup {dirname(data_file)}
    /\ file' = open_w(file)
    /\ overlap' = (overlap \/ \E q \in Procs \ {p} : procs[q].pc = "opened")
    /\ UNCHANGED <<single, writers>>

\* a call that returns False: the invocation prints and ends
tracker_fails(p, id) ==
    /\ procs' = [procs EXCEPT ![p].pc = "done", ![p].ret = "False",
                              ![p].id = id]
    /\ UNCHANGED <<single, file, dirs, writers, overlap>>

\* tracker.add_project(project) up to the open of the save
tracker_add_project ==
    \E p \in Procs, id \in ProjectIds, status \in ProjectStatuses :
        LET project == InputProject(id, status, Nothing)
            mem == procs[p].projects
        IN  /\ procs[p].pc = "loaded"
            /\ IF project.project_id \in Keys(mem)
               THEN tracker_fails(p, id)
               ELSE open_for_save(p, DictSet(mem, project.project_id, project),
                                  id)

\* tracker.update_project_status(id, status) up to the open of the save
tracker_update_project_status ==
    \E p \in Procs, id \in ProjectIds, status \in ProjectStatuses :
        LET mem == procs[p].projects
            project == Lookup(mem, id)
        IN  /\ procs[p].pc = "loaded"
            /\ IF project # Nothing
               THEN open_for_save(p,
                                  DictSet(mem, id,
                                          [project[1] EXCEPT
                                              !.status = status]),
                                  id)
               ELSE tracker_fails(p, id)

\* json.dump(data, f, indent=2) and the close of the file; the call
\* returns True
tracker_dump ==
    \E p \in Procs :
        /\ procs[p].pc = "opened"
        /\ file' \in dumped(file,
                            JsonObject([projects |->
                                           project_dicts(procs[p].projects)]))
        /\ procs' = [procs EXCEPT ![p].pc = "done", ![p].ret = "True"]
        /\ writers' = Append(writers, p)
        /\ UNCHANGED <<single, dirs, overlap>>

TwoFiles ==
    {AbsentFile, NotJson,
     JsonObject([projects |-> <<FullProject("p1", "planning")>>])}

InitTwo ==
    /\ command = "project"
    /\ data_file = DEFAULT_PROJECTS_FILE
    /\ file \in TwoFiles
    /\ dirs = IF file = AbsentFile THEN {} ELSE {dirname(data_file)}
    /\ now = 0
    /\ projects = <<>>
    /\ tasks = <<>>
    /\ members = <<>>
    /\ last = [op |-> "init", id |-> None, ret |-> "None", again |-> FALSE]
    /\ arg = None
    /\ result = <<>>
    /\ pre = [projects |-> <<>>, tasks |-> <<>>, members |-> <<>>,
              file |-> file, dirs |-> dirs, now |-> now]
    /\ procs = [p \in Procs |-> Idle]
    /\ writers = <<>>
    /\ overlap = FALSE

NextTwo ==
    \/ tracker_load
    \/ tracker_add_project
    \/ tracker_update_project_status
    \/ tracker_dump

SpecTwo == InitTwo /\ [][NextTwo]_vars

----------------------------------------------------------------------------
(* A store constructed with a path of the caller: ProjectTracker(data_file) *)
(* and TeamManager(data_file) take any path, also a bare file name, whose   *)
(* os.path.dirname is "".                                                   *)

BareFile(cmd) == [dir |-> "", name |-> DefaultFile(cmd).name]

PathFiles(cmd) ==
    {AbsentFile}
    \cup {JsonObject([k \in {ArrayField(cmd)} |-> list]) :
              list \in {<<FullProject("p1", "active")>>,
                        <<FullMember("m1", "designer", <<"go">>)>>}
                       \cap RecordLists(cmd)}

InitPath ==
    /\ command \in {"project", "team"}
    /\ data_file \in {DefaultFile(command), BareFile(command)}
    /\ file \in PathFiles(command)
    /\ dirs = IF file = AbsentFile THEN {} ELSE {dirname(data_file)}
    /\ now = 0
    /\ projects = Constructed(command, file, now).projects
    /\ tasks = Constructed(command, file, now).tasks
    /\ members = Constructed(command, file, now).members
    /\ last = [op |-> "init", id |-> None, ret |-> "None", again |-> FALSE]
    /\ arg = None
    /\ result = <<>>
    /\ pre = [projects |-> <<>>, tasks |-> <<>>, members |-> <<>>,
              file |-> file, dirs |-> dirs, now |-> now]
    /\ procs = <<>>
    /\ writers = <<>>
    /\ overlap = FALSE

NextPath ==
    \/ Construct
    \/ Tick
    \/ add_project
    \/ update_project_status
    \/ add_milestone
    \/ add_member
    \/ update_member_role
    \/ add_skill

SpecPath == InitPath /\ [][NextPath]_vars

----------------------------------------------------------------------------
(* Properties *)

\* the dict of the store this process works with, in a snapshot
MemOf(s) ==
    CASE command = "project" -> s.projects
      [] command = "task" -> s.tasks
      [] command = "team" -> s.members

Mem == MemOf(Snapshot)
PreMem == MemOf(pre)

\* the identifier a record carries
IdOf(rec) ==
    CASE command = "project" -> rec.project_id
      [] command = "task" -> rec.task_id
      [] command = "team" -> rec.member_id

AddOps == {"add_project", "add_task", "add_member"}

UpdateOps == {"update_project_status", "add_milestone", "update_task_status",
              "assign_task", "update_member_role", "add_skill"}

FilterOps == {"get_projects_by_status", "get_tasks_by_project",
              "get_tasks_by_assignee", "get_tasks_by_status",
              "get_members_by_role", "get_members_by_skill"}

\* C1: Add with an identifier that is already a key returns False, leaves
\* the dict as it was (the existing record stays) and writes nothing.
DuplicateAddFails ==
    (last.op \in AddOps /\ last.id \in Keys(PreMem)) =>
        /\ last.ret = "False"
        /\ Mem = PreMem
        /\ file = pre.file
        /\ dirs = pre.dirs

\* a duplicate Add whose record differs from the one already in the store
DuplicateAddWitness ==
    /\ last.op = "add_project"
    /\ last.id \in Keys(pre.projects)
    /\ Lookup(pre.projects, last.id) # Some(arg)
    /\ last.ret = "False"

\* what a store constructed at time t over the file holds
FreshLoad(t) == MemOf(Constructed(command, file, t))

\* C2: Add with a fresh identifier returns True, and a store constructed
\* afterwards over the file holds the records that were there before, in
\* their order, followed by a record equal to the one added.
FreshAddRoundTrips ==
    (last.op \in AddOps /\ last.id \notin Keys(PreMem)) =>
        /\ last.ret = "True"
        /\ \A t \in 0..MaxTick :
              FreshLoad(t) = Append(PreMem, [key |-> last.id, val |-> arg])

\* an unassigned task added after another one, at a later time than the
\* construction
FreshAddWitness ==
    /\ last.op = "add_task"
    /\ last.ret = "True"
    /\ arg.assigned_to = None
    /\ Len(pre.tasks) = 1
    /\ pre.now > 0

\* C3: an update of an identifier that is not in the store returns False,
\* changes no record and writes nothing: the file is not created either.
UpdateOfAbsentFails ==
    (last.op \in UpdateOps /\ last.id \notin Keys(PreMem)) =>
        /\ last.ret = "False"
        /\ Mem = PreMem
        /\ file = pre.file
        /\ dirs = pre.dirs

\* an assignment of an absent task while there is no file
UpdateOfAbsentWitness ==
    /\ last.op = "assign_task"
    /\ last.id \notin Keys(pre.tasks)
    /\ last.ret = "False"
    /\ file = AbsentFile

\* C4: add_skill for a member who is in the store reports success, also
\* when the member has the skill already.
AddSkillToMemberSucceeds ==
    (last.op = "add_skill" /\ last.id \in Keys(pre.members)) =>
        last.ret = "True"

\* the skills of member id in a dict
SkillsOf(mem, id) == Lookup(mem, id)[1].skills

\* C5: add_skill appends a skill the member has not got once, at the end,
\* and leaves the list alone when the member has it; the same call made
\* twice in a row leaves the list after the second call as it was after
\* the first.
AddSkillIdempotent ==
    (last.op = "add_skill" /\ last.id \in Keys(pre.members)) =>
        LET before == SkillsOf(pre.members, last.id)
            after == SkillsOf(members, last.id)
        IN  /\ Contains(before, arg) => after = before
            /\ ~Contains(before, arg) => after = Append(before, arg)
            /\ last.again => members = pre.members

\* the second of two equal calls, where the first one appended the skill
\* after another skill
AddSkillTwiceWitness ==
    /\ last.op = "add_skill"
    /\ last.again
    /\ last.id \in Keys(members)
    /\ Len(SkillsOf(members, last.id)) = 2
    /\ SkillsOf(members, last.id)[2] = arg

\* the test a filter applies to a record
Matches(op, rec, value) ==
    CASE op = "get_projects_by_status" -> rec.status = value
      [] op = "get_tasks_by_project" -> rec.project_id = value
      [] op = "get_tasks_by_assignee" -> rec.assigned_to = value
      [] op = "get_tasks_by_status" -> rec.status = value
      [] op = "get_members_by_role" -> rec.role = value
      [] op = "get_members_by_skill" -> \E i \in DOMAIN rec.skills :
                                           rec.skills[i] = value

\* the positions in the dict of the records a filter has to return
Matching(op, value) == {i \in 1..Len(Mem) : Matches(op, Mem[i].val, value)}

\* the k-th smallest element of a set of positions
Nth(S, k) == CHOOSE i \in S : Cardinality({j \in S : j <= i}) = k

\* C6: a filter returns the records whose field equals the query value
\* (whose skills contain it), all of them and no others, in the order of
\* the dict, and changes neither the dict nor the file.
FilterReturnsMatching ==
    last.op \in FilterOps =>
        /\ Len(result) = Cardinality(Matching(last.op, arg))
        /\ \A k \in 1..Len(result) :
              result[k] = Mem[Nth(Matching(last.op, arg), k)].val
        /\ Mem = PreMem
        /\ file = pre.file

\* a filter that returns the second of two records and not the first
FilterWitness ==
    /\ last.op = "get_members_by_skill"
    /\ Len(members) = 2
    /\ result = <<members[2].val>>

RequiredFields ==
    CASE command = "project" -> ProjectRequired
      [] command = "task" -> TaskRequired
      [] command = "team" -> MemberRequired

\* a file that is not JSON, or not a JSON object, or has a record without
\* a required field in its array
Invalid(f) ==
    \/ f.kind \in {"notjson", "notobject"}
    \/ /\ f.kind = "object"
       /\ ArrayField(command) \in DOMAIN f.body
       /\ \E i \in DOMAIN f.body[ArrayField(command)] :
             ~(RequiredFields \subseteq DOMAIN f.body[ArrayField(command)][i])

\* C7: a store constructed over an invalid file is empty.
InvalidFileLoadsEmpty ==
    (last.op = "init" /\ Invalid(file)) => Mem = <<>>

\* the fields of a task that an update must leave alone
TaskFrame(task, changed) == Without(task, changed)

\* C8 as stated: assign_task on an existing task returns True, sets
\* assigned_to, changes updated_at to a different value and nothing else;
\* update_task_status likewise for status.
UpdatedAtAlwaysChanges ==
    (last.op \in {"assign_task", "update_task_status"}
        /\ last.id \in Keys(pre.tasks)) =>
        LET old == Lookup(pre.tasks, last.id)[1]
            new == Lookup(tasks, last.id)[1]
            field == IF last.op = "assign_task" THEN "assigned_to"
                     ELSE "status"
        IN  /\ last.ret = "True"
            /\ new[field] = arg
            /\ new.updated_at # old.updated_at
            /\ TaskFrame(new, {field, "updated_at"})
                   = TaskFrame(old, {field, "updated_at"})

\* C8, amended: assign_task on an existing task returns True, sets
\* assigned_to to the given member, whether the team store has it or not,
\* sets updated_at to the time of the call in whole seconds, and leaves the
\* other fields and the other tasks alone; update_task_status likewise for
\* status.
UpdateRefreshesUpdatedAt ==
    (last.op \in {"assign_task", "update_task_status"}
        /\ last.id \in Keys(pre.tasks)) =>
        LET old == Lookup(pre.tasks, last.id)[1]
            new == Lookup(tasks, last.id)[1]
            field == IF last.op = "assign_task" THEN "assigned_to"
                     ELSE "status"
        IN  /\ last.ret = "True"
            /\ new[field] = arg
            /\ new.updated_at = DATETIME_FORMAT(pre.now)
            /\ TaskFrame(new, {field, "updated_at"})
                   = TaskFrame(old, {field, "updated_at"})
            /\ \A i \in 1..Len(tasks) :
                  tasks[i].key # last.id => tasks[i] = pre.tasks[i]

\* an assignment, to a member the team store has not got, that changed
\* the assignee and updated_at
AssignWitness ==
    /\ last.op = "assign_task"
    /\ last.ret = "True"
    /\ arg \notin Keys(members)
    /\ Lookup(pre.tasks, last.id)[1].assigned_to # arg
    /\ Lookup(tasks, last.id)[1].assigned_to = arg
    /\ Lookup(tasks, last.id)[1].updated_at
          # Lookup(pre.tasks, last.id)[1].updated_at

\* the JSON object a record of this store is written as
ToDict(rec) ==
    CASE command = "project" -> Project_to_dict(rec)
      [] command = "task" -> Task_to_dict(rec)
      [] command = "team" -> TeamMember_to_dict(rec)

\* C9: after a mutation returned True, the file is a JSON object whose one
\* array holds the serialization of every record of the dict, in the
\* order of the dict, and nothing else.
FileHoldsMemory ==
    (last.op \in AddOps \cup UpdateOps /\ last.ret = "True") =>
        /\ file.kind = "object"
        /\ DOMAIN file.body = {ArrayField(command)}
        /\ Len(file.body[ArrayField(command)]) = Len(Mem)
        /\ \A i \in 1..Len(Mem) :
              file.body[ArrayField(command)][i] = ToDict(Mem[i].val)

\* a status update of the first of two projects, the second of which has a
\* milestone
FileHoldsMemoryWitness ==
    /\ last.op = "update_project_status"
    /\ last.ret = "True"
    /\ Len(projects) = 2
    /\ projects[1].key = last.id
    /\ projects[1].val.status # pre.projects[1].val.status
    /\ projects[2].val.milestones # <<>>

\* the keys of a dict, in its order
RECURSIVE KeyList(_)
KeyList(mem) ==
    IF mem = <<>> THEN <<>> ELSE <<Head(mem).key>> \o KeyList(Tail(mem))

IsPrefix(s, t) == Len(s) <= Len(t) /\ SubSeq(t, 1, Len(s)) = s

\* C10: every key maps to a record that carries that key as its
\* identifier, no key occurs twice, and a call on a store keeps the keys it
\* had, in their order: new keys come after them.
KeysAreIdsAndStay ==
    /\ \A i \in 1..Len(Mem) : IdOf(Mem[i].val) = Mem[i].key
    /\ \A i, j \in 1..Len(Mem) : Mem[i].key = Mem[j].key => i = j
    /\ last.op # "init" => IsPrefix(KeyList(PreMem), KeyList(Mem))

\* a role update of the first of two members
KeysStayWitness ==
    /\ last.op = "update_member_role"
    /\ last.ret = "True"
    /\ Len(members) = 2
    /\ members[1].key = last.id
    /\ members[1].val.role # pre.members[1].val.role

\* C11: the first successful Add of a store that was constructed over an
\* invalid file (the file is still the one the load failed on) leaves a
\* file that holds the added record and nothing else.
AddAfterFailedLoadKeepsNothing ==
    (last.op \in AddOps /\ last.ret = "True" /\ Invalid(pre.file)) =>
        /\ file.kind = "object"
        /\ file.body[ArrayField(command)] = <<ToDict(arg)>>

\* both invocations have ended, each after a rewrite and a success message
BothSucceeded ==
    /\ DOMAIN procs = Procs
    /\ \A p \in Procs : procs[p].pc = "done" /\ procs[p].ret = "True"

LastWriter == writers[Len(writers)]
OtherWriter == writers[1]

\* the file is the serialization of a dict, record for record
FileIs(mem) ==
    /\ file.kind = "object"
    /\ DOMAIN file.body = {"projects"}
    /\ Len(file.body["projects"]) = Len(mem)
    /\ \A i \in 1..Len(mem) :
          file.body["projects"][i] = Project_to_dict(mem[i].val)

\* the record that invocation p wrote under the identifier it was given
RecordOf(p) == Lookup(procs[p].projects, procs[p].id)[1]

\* is the record r in the file
InFile(r) ==
    /\ file.kind = "object"
    /\ \E i \in DOMAIN Get(file.body, "projects", <<>>) :
          file.body["projects"][i] = Project_to_dict(r)

\* C12 as stated: when both invocations have mutated successfully, the
\* file is the dict of the one whose rewrite completed last, in every
\* interleaving.
LastWriterWinsAlways ==
    BothSucceeded => FileIs(procs[LastWriter].projects)

\* C12, amended: when both invocations have mutated successfully and their
\* rewrites did not overlap, the file is the dict of the one whose rewrite
\* completed last; the record the other one wrote is in the file only if
\* the last writer holds it, and both were told of success.
LastWriterWins ==
    (BothSucceeded /\ ~overlap) =>
        /\ FileIs(procs[LastWriter].projects)
        /\ Lookup(procs[LastWriter].projects, procs[OtherWriter].id)
              # Some(RecordOf(OtherWriter))
             => ~InFile(RecordOf(OtherWriter))

\* two Adds of different identifiers into stores loaded before either
\* rewrite, the rewrites one after the other: the record of the first
\* writer is lost
LostUpdateWitness ==
    /\ BothSucceeded
    /\ ~overlap
    /\ procs[1].id # procs[2].id
    /\ \A p \in Procs : Len(procs[p].projects) = 1
    /\ FileIs(procs[LastWriter].projects)
    /\ ~InFile(RecordOf(OtherWriter))

\* C13: whatever the path of the backing file, an Add or an update returns
\* its boolean, and when it has changed the dict it has made sure of the
\* directory and the file holds the dict: a record is never in memory
\* while the file was not written.
PersistWorksForEveryPath ==
    last.op \in AddOps \cup UpdateOps =>
        /\ last.ret \in {"True", "False"}
        /\ Mem # PreMem =>
              /\ dirname(data_file) # "" => dirname(data_file) \in dirs
              /\ file.kind = "object"
              /\ DOMAIN file.body = {ArrayField(command)}
              /\ Len(file.body[ArrayField(command)]) = Len(Mem)
              /\ \A i \in 1..Len(Mem) :
                    file.body[ArrayField(command)][i] = ToDict(Mem[i].val)

====
